---- MODULE Spec2Model ----
(***************************************************************************)
(* A model of the Decryptc front end: the application state controller     *)
(* (App), the report requester with its retry loop (analyzeAsset) and the  *)
(* scripted scan animation (ScanVisualization).                            *)
(*                                                                         *)
(* The repository holds two versions of the App component.  They share     *)
(* startScan, onScanComplete, resetApp and handleFileChange line for line  *)
(* and differ in what they render: where the reset control and the scan    *)
(* button are offered.  The variable build selects the version.            *)
(*                                                                         *)
(* JavaScript runs one task at a time.  An action of this model is one     *)
(* task: a user event, a timer callback, a file-reader event or the        *)
(* settling of the remote call, each together with the promise             *)
(* continuations (microtasks) and the React render and effects that        *)
(* follow it before the next task can start.                               *)
(***************************************************************************)
EXTENDS Integers, Sequences, FiniteSets, TLC

VARIABLES
    build,            \* which App component is mounted
    apiKey,           \* process.env.API_KEY ("" when absent)
    appState,         \* useState<AppState>
    inputMode,        \* useState<InputMode>
    file,             \* useState<File | null>, <<>> is null, <<f>> a file
    urlInput,         \* useState('')
    report,           \* useState<ForensicReport | null>
    error,            \* useState<string | null>, "null" is null
    submitted,        \* number of analyzeAsset invocations started so far
    inv,              \* the analyzeAsset invocations, by submission number
    settled,          \* the invocation that settled last, as it settled
    steps,            \* ScanVisualization: useState<ScanStep[]>
    currentStepIndex, \* ScanVisualization: useState(0)
    completionTimers, \* pending setTimeout(onComplete, 800), oldest first
    trial,            \* one iteration of the retry loop taken alone: its input
    trialResult,      \* and what the iteration did with it
    normIn,           \* the normalizer taken alone: the asset it is given
    normOut           \* and the read it awaits and the parts it builds

vars == <<build, apiKey, appState, inputMode, file, urlInput, report, error,
          submitted, inv, settled, steps, currentStepIndex, completionTimers,
          trial, trialResult, normIn, normOut>>

appVars == <<appState, inputMode, file, urlInput, report, error>>
\* what no task of the application changes
envVars == <<build, apiKey, trial, trialResult, normIn, normOut>>
animVars == <<steps, currentStepIndex, completionTimers>>

----------------------------------------------------------------------------
(* Bounds of the model *)

\* submissions (startScan calls that reach analyzeAsset) in one behaviour
MaxSubmissions == 2

----------------------------------------------------------------------------
(* types.ts *)

IDLE == "IDLE"
SCANNING == "SCANNING"
REPORT_READY == "REPORT_READY"
ERROR == "ERROR"
AppState == {IDLE, SCANNING, REPORT_READY, ERROR}

RequiredFields == {"case_id", "verdict", "confidence_score", "summary", "risk_level"}
ListFields == {"key_evidence", "suspicious_urls", "probable_original_sources",
               "data_gaps", "recommended_actions"}

\* the two App components of the repository
Builds == {"App.tsx", "part_000"}

----------------------------------------------------------------------------
(* JavaScript values *)

\* A JSON value as JSON.parse returns it: kind and, for an object, the keys
\* it has.  A report held by the controller is a JSON value tagged with the
\* submission whose response it was parsed from (objects have identity;
\* null and the other primitives have none and carry 0).
JNull == [kind |-> "null", fields |-> {}]
JObject(fs) == [kind |-> "object", fields |-> fs]
NullReport == [sub |-> 0, json |-> JNull]

\* JavaScript truthiness of a parsed JSON value
JTruthy(j) == j.kind \notin {"null", "false", "zero", "emptystring"}

\* report of submission i with parsed value j
ReportOf(i, j) == [sub |-> IF j.kind = "object" THEN i ELSE 0, json |-> j]

\* A field of an error object: "undefined", a number "num:<n>" or a string
\* "str:<s>"; === compares type and value.
Undefined == "undefined"
Truthy(v) == v \notin {Undefined, "num:0", "str:"}
Or(a, b) == IF Truthy(a) THEN a ELSE b

\* String.prototype.includes / startsWith / endsWith
Includes(s, sub) ==
    \E i \in 1..(Len(s) - Len(sub) + 1) : SubSeq(s, i, i + Len(sub) - 1) = sub
StartsWith(s, p) == Len(p) <= Len(s) /\ SubSeq(s, 1, Len(p)) = p
EndsWith(s, p) == Len(p) <= Len(s) /\ SubSeq(s, Len(s) - Len(p) + 1, Len(s)) = p

----------------------------------------------------------------------------
(* Error objects and their classification (analyzeAsset, catch block) *)

\* An error object as the catch block reads it: error.status, error.code,
\* error.error.code, error.error.status, error.message, error.error.message.
Err(status, code, ecode, estatus, message, emessage) ==
    [status |-> status, code |-> code, ecode |-> ecode, estatus |-> estatus,
     message |-> message, emessage |-> emessage]

\* new Error(msg)
NewError(msg) == Err(Undefined, Undefined, Undefined, Undefined, "str:" \o msg, Undefined)

IsString(v) == StartsWith(v, "str:")
\* the characters of a tagged number or string
Raw(v) == SubSeq(v, 5, Len(v))

\* JSON.stringify of one defined field value
JsonOf(v) == IF IsString(v) THEN "\"" \o Raw(v) \o "\"" ELSE Raw(v)
\* "key":value, or nothing for an undefined field
Member(key, v) == IF v = Undefined THEN "" ELSE "\"" \o key \o "\":" \o JsonOf(v)
JoinMembers(a, b) == IF a = "" THEN b ELSE IF b = "" THEN a ELSE a \o "," \o b

\* JSON.stringify(error): the defined fields, the nested error object last
JSONStringify(e) ==
    LET nested == JoinMembers(Member("code", e.ecode),
                    JoinMembers(Member("status", e.estatus),
                                Member("message", e.emessage)))
        outer == JoinMembers(Member("status", e.status),
                   JoinMembers(Member("code", e.code), Member("message", e.message)))
    IN "{" \o JoinMembers(outer, IF nested = "" THEN "" ELSE "\"error\":{" \o nested \o "}")
           \o "}"

\* const errorCode = error.status || error.code || error?.error?.code || error?.error?.status
errorCode(e) == Or(e.status, Or(e.code, Or(e.ecode, e.estatus)))

\* const errorMessage = error.message || error?.error?.message || JSON.stringify(error)
errorMessage(e) == Or(e.message, Or(e.emessage, "str:" \o JSONStringify(e)))

isRateLimit(e) ==
    \/ errorCode(e) = "num:429"
    \/ errorCode(e) = "str:RESOURCE_EXHAUSTED"
    \/ /\ IsString(errorMessage(e))
       /\ \/ Includes(Raw(errorMessage(e)), "429")
          \/ Includes(Raw(errorMessage(e)), "quota")
          \/ Includes(Raw(errorMessage(e)), "RESOURCE_EXHAUSTED")

maxAttempts == 5
InitialDelay == 4000

\* MayRetry with the bound off by one
MayRetryInclusive(e, n) == isRateLimit(e) /\ n <= maxAttempts

\* MayRetry without the classification
MayRetryAny(e, n) == n < maxAttempts

\* if (isRateLimit && attempts < maxAttempts), attempts already incremented
MayRetry(e, n) == isRateLimit(e) /\ n < maxAttempts

\* Backoff growing by a fixed step
BackoffLinear(d) == d + InitialDelay

\* delay *= 2
Backoff(d) == d * 2

----------------------------------------------------------------------------
(* The remote call and the parse of its response *)

\* errors the remote call is made to throw
RateLimitError ==
    Err("num:429", Undefined, Undefined, Undefined, "str:Too Many Requests", Undefined)
ServerError ==
    Err("num:500", Undefined, Undefined, Undefined, "str:Internal error", Undefined)
RemoteErrors == {RateLimitError, ServerError}

\* response texts the remote call is made to return
ReportText == "{\"case_id\":\"C-1\",\"verdict\":\"LIKELY ORIGINAL / AUTHENTIC\",\"confidence_score\":90,\"summary\":\"s\",\"key_evidence\":[],\"risk_level\":\"LOW\",\"suspicious_urls\":[],\"probable_original_sources\":[],\"data_gaps\":[],\"recommended_actions\":[]}"
RemoteTexts == {ReportText, "null", ""}

\* further response texts, for the loop iteration taken alone: a report
\* without its verdict, a report without data_gaps, a report with the
\* required fields only, and three texts that are not JSON
ReportTextNoVerdict == "{\"case_id\":\"C-1\",\"confidence_score\":90,\"summary\":\"s\",\"key_evidence\":[],\"risk_level\":\"LOW\",\"suspicious_urls\":[],\"probable_original_sources\":[],\"data_gaps\":[],\"recommended_actions\":[]}"
ReportTextNoDataGaps == "{\"case_id\":\"C-1\",\"verdict\":\"LIKELY ORIGINAL / AUTHENTIC\",\"confidence_score\":90,\"summary\":\"s\",\"key_evidence\":[],\"risk_level\":\"LOW\",\"suspicious_urls\":[],\"probable_original_sources\":[],\"recommended_actions\":[]}"
ReportTextRequiredOnly == "{\"case_id\":\"C-1\",\"verdict\":\"LIKELY ORIGINAL / AUTHENTIC\",\"confidence_score\":90,\"summary\":\"s\",\"risk_level\":\"LOW\"}"
TrialTexts ==
    RemoteTexts \cup {ReportTextNoVerdict, ReportTextNoDataGaps, ReportTextRequiredOnly,
                      "Service unavailable", "quota exceeded", "Error 429"}

\* what one generateContent call can do: throw, or resolve with a text
NoOutcome == [kind |-> "none", err |-> NewError(""), text |-> ""]
RemoteOutcomes ==
    [kind : {"throw"}, err : RemoteErrors, text : {""}]
    \cup [kind : {"response"}, err : {NewError("")}, text : RemoteTexts]

\* the message of the SyntaxError JSON.parse throws for a text
SyntaxErrorMessage(t) ==
    "Unexpected token '" \o SubSeq(t, 1, 1) \o "', \"" \o t \o "\" is not valid JSON"

\* JSON.parse(text): the value, or the SyntaxError thrown
JSONParse(t) ==
    CASE t = ReportText -> [ok |-> TRUE, json |-> JObject(RequiredFields \cup ListFields),
                            err |-> NewError("")]
      [] t = "null" -> [ok |-> TRUE, json |-> JNull, err |-> NewError("")]
      [] t = ReportTextNoVerdict ->
            [ok |-> TRUE, json |-> JObject((RequiredFields \ {"verdict"}) \cup ListFields),
             err |-> NewError("")]
      [] t = ReportTextNoDataGaps ->
            [ok |-> TRUE, json |-> JObject(RequiredFields \cup (ListFields \ {"data_gaps"})),
             err |-> NewError("")]
      [] t = ReportTextRequiredOnly ->
            [ok |-> TRUE, json |-> JObject(RequiredFields), err |-> NewError("")]
      [] OTHER -> [ok |-> FALSE, json |-> JNull, err |-> NewError(SyntaxErrorMessage(t))]

\* The body of the try block once generateContent has settled with outcome o:
\*   const textResponse = response.text;
\*   if (!textResponse) throw new Error("No response from AI");
\*   return JSON.parse(textResponse) as ForensicReport;
TryBlock(o) ==
    IF o.kind = "throw" THEN [ok |-> FALSE, json |-> JNull, err |-> o.err]
    ELSE IF o.text = "" THEN [ok |-> FALSE, json |-> JNull, err |-> NewError("No response from AI")]
    ELSE JSONParse(o.text)

----------------------------------------------------------------------------
(* The input normalizer (analyzeAsset, lines 84-119) *)

FileSizeLimit == 52428800   \* 50 * 1024 * 1024

\* a File: name, declared MIME type, size, and the bytes a FileReader yields
NoFile == [name |-> "", type |-> "", size |-> 0, bytes |-> <<>>]
TextFile == [name |-> "notes.txt", type |-> "text/plain", size |-> 2, bytes |-> <<72, 105>>]
ImageFile == [name |-> "photo.png", type |-> "image/png", size |-> FileSizeLimit,
              bytes |-> <<137, 80, 78, 71>>]
DocxFile == [name |-> "paper.docx",
             type |-> "application/vnd.openxmlformats-officedocument.wordprocessingml.document",
             size |-> 3, bytes |-> <<80, 75, 3>>]
HugeFile == [name |-> "movie.mp4", type |-> "video/mp4", size |-> FileSizeLimit + 1,
             bytes |-> <<0>>]
\* the files the user can pick, and the texts the user can type
FileSamples == {TextFile, ImageFile, HugeFile}
UrlSamples == {"http://a.example/x"}

\* the asset handed to analyzeAsset: a string or a File
UrlAsset(u) == [kind |-> "url", url |-> u, file |-> NoFile]
FileAsset(f) == [kind |-> "file", url |-> "", file |-> f]
NoAsset == [kind |-> "none", url |-> "", file |-> NoFile]

\* the printable ASCII characters, from code 32 (the double quote, the
\* backslash and the backquote, which a TLA+ string cannot hold, as ?)
Ascii == " !?#$%&'()*+,-./0123456789:;<=>?@ABCDEFGHIJKLMNOPQRSTUVWXYZ[?]^_?abcdefghijklmnopqrstuvwxyz{|}~"
Chr(b) == IF b >= 32 /\ b <= 126 THEN SubSeq(Ascii, b - 31, b - 31) ELSE "?"

RECURSIVE DecodeText(_)
\* FileReader.readAsText: the bytes decoded as text
DecodeText(bs) == IF bs = <<>> THEN "" ELSE Chr(Head(bs)) \o DecodeText(Tail(bs))

B64Alphabet == "ABCDEFGHIJKLMNOPQRSTUVWXYZabcdefghijklmnopqrstuvwxyz0123456789+/"
B64Char(n) == SubSeq(B64Alphabet, n + 1, n + 1)

RECURSIVE Base64(_)
\* the base64 text of a byte sequence, three bytes to four characters, padded
Base64(bs) ==
    IF bs = <<>> THEN ""
    ELSE IF Len(bs) = 1 THEN
        B64Char(bs[1] \div 4) \o B64Char((bs[1] % 4) * 16) \o "=="
    ELSE IF Len(bs) = 2 THEN
        B64Char(bs[1] \div 4) \o B64Char((bs[1] % 4) * 16 + bs[2] \div 16)
            \o B64Char((bs[2] % 16) * 4) \o "="
    ELSE
        B64Char(bs[1] \div 4) \o B64Char((bs[1] % 4) * 16 + bs[2] \div 16)
            \o B64Char((bs[2] % 16) * 4 + bs[3] \div 64) \o B64Char(bs[3] % 64)
            \o Base64(SubSeq(bs, 4, Len(bs)))

\* reader.readAsDataURL(file); result.split(',')[1]
fileToBase64(f) == Base64(f.bytes)
\* reader.readAsText(file)
fileToText(f) == DecodeText(f.bytes)

RECURSIVE Digits(_)
Digits(n) == IF n < 10 THEN SubSeq("0123456789", n + 1, n + 1)
             ELSE Digits(n \div 10) \o SubSeq("0123456789", (n % 10) + 1, (n % 10) + 1)

\* isSupportedMimeType taking every application/ type
isSupportedMimeTypeWide(mime) ==
    \/ StartsWith(mime, "application/")
    \/ StartsWith(mime, "image/")
    \/ StartsWith(mime, "video/")

isSupportedMimeType(mime) ==
    \/ mime = "application/pdf"
    \/ StartsWith(mime, "image/")
    \/ StartsWith(mime, "video/")

\* the text branch deciding by the MIME type alone
IsTextLikeByType(f) == StartsWith(f.type, "text/")

\* the condition of the text branch (line 94)
IsTextLike(f) ==
    \/ StartsWith(f.type, "text/")
    \/ EndsWith(f.name, ".txt")
    \/ EndsWith(f.name, ".md")
    \/ EndsWith(f.name, ".csv")
    \/ EndsWith(f.name, ".json")

\* which FileReader read the normalizer awaits for an asset, if any
ReadOf(a) ==
    IF a.kind # "file" THEN "none"
    ELSE IF IsTextLike(a.file) THEN "text"
    ELSE IF isSupportedMimeType(a.file.type) THEN "base64"
    ELSE "none"

TextPart(t) == [kind |-> "text", text |-> t, mimeType |-> "", data |-> ""]
InlineDataPart(mime, d) == [kind |-> "inlineData", text |-> "", mimeType |-> mime, data |-> d]

\* parts, as built for asset a
BuildParts(a) ==
    IF a.kind = "url" THEN
        << TextPart("Analyze this URL for piracy and authenticity risks: " \o a.url
                    \o ". \nGenerate a forensic report.") >>
    ELSE IF ReadOf(a) = "text" THEN
        << TextPart("Analyze this text content for plagiarism and piracy risks:\n\n"
                    \o fileToText(a.file)) >>
    ELSE IF ReadOf(a) = "base64" THEN
        << InlineDataPart(a.file.type, fileToBase64(a.file)),
           TextPart("Analyze this " \o a.file.type \o " asset and generate a forensic piracy report based on simulated reverse search and metadata analysis.") >>
    ELSE
        << TextPart("Perform a simulated forensic analysis on this file.\n\nFile Name: "
                    \o a.file.name \o "\nFile Size: " \o Digits(a.file.size)
                    \o " bytes\nFile Type: " \o a.file.type
                    \o "\n\nSince direct content analysis is not available for this file type via the current interface, simulate findings based on the metadata and common piracy patterns associated with this file format.") >>

\* files of every kind of type and name, for the normalizer taken alone
NormNames == {"notes.txt", "photo.png", "paper.docx", "readme.md", "data.csv",
              "data.json", "clip.mp4", "scan.pdf", "archive"}
NormTypes == {"text/plain", "text/html", "image/png", "video/mp4", "application/pdf",
              "application/vnd.openxmlformats-officedocument.wordprocessingml.document",
              "application/json", ""}
NormBytes == {<<>>, <<72, 105>>, <<137, 80, 78, 71>>, <<80, 75, 3>>, <<255>>}
NormFiles ==
    {[name |-> n, type |-> t, size |-> Len(b), bytes |-> b] :
        n \in NormNames, t \in NormTypes, b \in NormBytes}
NormAssets == {FileAsset(f) : f \in NormFiles} \cup {UrlAsset(u) : u \in UrlSamples}

\* what the normalizer does with asset a: the read it awaits, and parts
NoNormOut == [done |-> FALSE, read |-> "none", parts |-> <<>>]
Normalized(a) == [done |-> TRUE, read |-> ReadOf(a), parts |-> BuildParts(a)]

----------------------------------------------------------------------------
(* ScanVisualization *)

\* STEPS: six steps, all pending
STEPS == [i \in 1..6 |-> "pending"]

\* The component after a task in which App ended in state st holding report
\* rep, given whether App rendered again (so that onComplete is a new
\* function and the effect runs again) and whether the step index moved.
\*   not SCANNING: unmounted; the cleanup clears the step timer, nothing
\*     clears a completion timer.
\*   mounted now: fresh state, the effect marks step 0 active.
\*   index at steps.length: setTimeout(onComplete, 800), onComplete closing
\*     over rep.
\*   otherwise: the effect marks the current step active and (re)starts its
\*     timer.
EffectSteps(ss, idx) == IF idx >= Len(ss) THEN ss ELSE [ss EXCEPT ![idx + 1] = "active"]

\* the effect sending the completion signal one step early
AnimAfterEarlySignal(st, rep, rerun, ss, idx) ==
    IF st # SCANNING THEN
        /\ steps' = STEPS
        /\ currentStepIndex' = 0
        /\ UNCHANGED completionTimers
    ELSE IF appState # SCANNING THEN
        /\ steps' = EffectSteps(STEPS, 0)
        /\ currentStepIndex' = 0
        /\ UNCHANGED completionTimers
    ELSE
        /\ steps' = IF rerun THEN EffectSteps(ss, idx) ELSE ss
        /\ currentStepIndex' = idx
        /\ completionTimers' = IF rerun /\ idx >= Len(ss) - 1
                               THEN Append(completionTimers, rep)
                               ELSE completionTimers

AnimAfter(st, rep, rerun, ss, idx) ==
    IF st # SCANNING THEN
        /\ steps' = STEPS
        /\ currentStepIndex' = 0
        /\ UNCHANGED completionTimers
    ELSE IF appState # SCANNING THEN
        /\ steps' = EffectSteps(STEPS, 0)
        /\ currentStepIndex' = 0
        /\ UNCHANGED completionTimers
    ELSE
        /\ steps' = IF rerun THEN EffectSteps(ss, idx) ELSE ss
        /\ currentStepIndex' = idx
        /\ completionTimers' = IF rerun /\ idx >= Len(ss)
                               THEN Append(completionTimers, rep)
                               ELSE completionTimers

\* App state after a task, and the animation that follows from it
Commit(st, rep, err) ==
    /\ appState' = st
    /\ report' = rep
    /\ error' = err
    /\ AnimAfter(st, rep, <<st, rep, err>> # <<appState, report, error>>,
                 steps, currentStepIndex)

----------------------------------------------------------------------------
(* analyzeAsset invocations *)

NoResult == [kind |-> "none", json |-> JNull, err |-> NewError("")]
Returned(j) == [kind |-> "value", json |-> j, err |-> NewError("")]
Thrown(e) == [kind |-> "error", json |-> JNull, err |-> e]

\* pc: "unused", "rejecting" (threw before its first await; the rejection
\* is handled in the microtask that follows), "reading" (a FileReader read
\* is pending), "calling" (generateContent is pending), "sleeping"
\* (sleep(delay) is pending), "returned", "thrown".
\* sub is the submission number, calls counts the generateContent calls
\* made, sleeps lists the delays slept, result is what the invocation
\* settled with.  The locals of an invocation die when it settles: inv
\* keeps its pc only, and settled holds the last one as it was then.
\* last is the outcome of the generateContent call that settled last, until
\* the next call is made.
Unused ==
    [pc |-> "unused", sub |-> 0, input |-> NoAsset, parts |-> <<>>, attempts |-> 0,
     delay |-> InitialDelay, calls |-> 0, sleeps |-> <<>>, result |-> NoResult,
     last |-> NoOutcome]

\* invocation i settles as record r
Settle(i, r) ==
    /\ settled' = r
    /\ inv' = [inv EXCEPT ![i] = [Unused EXCEPT !.pc = r.pc, !.sub = i]]

InFlight(i) == inv[i].pc \in {"rejecting", "reading", "calling", "sleeping"}
MicrotaskPending == \E i \in 1..MaxSubmissions : inv[i].pc = "rejecting"

\* what fileToText / fileToBase64 reject with: the reader's error event
ReadError == Err(Undefined, Undefined, Undefined, Undefined, Undefined, Undefined)

FailureMessage == "Failed to generate report. Please try again."

----------------------------------------------------------------------------
(* One iteration of the retry loop, taken alone *)

\* errors with every combination of the fields the catch block reads
TrialErrors ==
    {Err(st, c, ec, es, m, em) :
        st \in {Undefined, "num:429", "num:500", "str:RESOURCE_EXHAUSTED"},
        c \in {Undefined, "num:429", "str:ECONNRESET"},
        ec \in {Undefined, "num:429", "num:4290"},
        es \in {Undefined, "str:RESOURCE_EXHAUSTED", "str:UNAVAILABLE"},
        m \in {Undefined, "str:fetch failed", "str:quota exceeded", "str:HTTP 429"},
        em \in {Undefined, "str:Quota exceeded"}}

TrialOutcomes ==
    [kind : {"throw"}, err : TrialErrors, text : {""}]
    \cup [kind : {"response"}, err : {NewError("")}, text : TrialTexts]

\* input: how generateContent settled and the value of attempts before it
NoTrial == [o |-> NoOutcome, attempts |-> 0]
Trials == [o : TrialOutcomes, attempts : 0..(maxAttempts - 1)]

\* The iteration of the while loop in which generateContent settles with
\* outcome o, attempts being the failures counted so far: it returns the
\* parsed value, or sleeps and goes round again, or throws the error.
NoTrialResult == [kind |-> "none", json |-> JNull, err |-> NewError(""), rateLimit |-> FALSE]
Iteration(o, attempts) ==
    LET r == TryBlock(o)
    IN IF r.ok
       THEN [kind |-> "return", json |-> r.json, err |-> NewError(""), rateLimit |-> FALSE]
       ELSE [kind |-> IF MayRetry(r.err, attempts + 1) THEN "retry" ELSE "throw",
             json |-> JNull, err |-> r.err, rateLimit |-> isRateLimit(r.err)]

----------------------------------------------------------------------------
Init ==
    /\ build \in Builds
    /\ apiKey \in {"key", ""}
    /\ appState = IDLE
    /\ inputMode = "file"
    /\ file = <<>>
    /\ urlInput = ""
    /\ report = NullReport
    /\ error = "null"
    /\ submitted = 0
    /\ inv = [i \in 1..MaxSubmissions |-> Unused]
    /\ settled = Unused
    /\ steps = STEPS
    /\ currentStepIndex = 0
    /\ completionTimers = <<>>
    /\ trial = NoTrial
    /\ trialResult = NoTrialResult
    /\ normIn = NoAsset
    /\ normOut = NoNormOut

----------------------------------------------------------------------------
(* App: what is rendered *)

\* the IDLE view with its inputs
IdleView == appState = IDLE

\* the scan button can be clicked
ScanButton ==
    /\ appState = IDLE
    /\ IF build = "App.tsx"
       THEN ~ (IF inputMode = "url" THEN urlInput = "" ELSE file = <<>>)
       ELSE file # <<>> \/ (inputMode = "url" /\ urlInput # "")

\* a control bound to resetApp is on screen
ResetControl ==
    \/ build = "part_000"
    \/ appState = REPORT_READY /\ JTruthy(report.json)
    \/ appState = ERROR /\ error = "null"

\* ReportView is on screen: appState === AppState.REPORT_READY && report
ReportShown == appState = REPORT_READY /\ JTruthy(report.json)

----------------------------------------------------------------------------
(* App: user events *)

\* handleFileChange without the size check
handleFileChangeUnchecked(f) ==
    /\ ~MicrotaskPending
    /\ IdleView /\ inputMode = "file"
    /\ file' = <<f>>
    /\ UNCHANGED <<envVars, appState, inputMode, urlInput, report, error,
                   submitted, inv, settled, animVars>>

handleFileChange(f) ==
    /\ ~MicrotaskPending
    /\ IdleView /\ inputMode = "file"
    /\ file' = IF f.size > FileSizeLimit THEN file ELSE <<f>>
    /\ UNCHANGED <<envVars, appState, inputMode, urlInput, report, error,
                   submitted, inv, settled, animVars>>

setUrlInput(u) ==
    /\ ~MicrotaskPending
    /\ IdleView /\ inputMode = "url"
    /\ urlInput' = u
    /\ UNCHANGED <<envVars, appState, inputMode, file, report, error,
                   submitted, inv, settled, animVars>>

\* a mode switch that only sets the mode
setInputModeKeepsInputs(mode) ==
    /\ ~MicrotaskPending
    /\ IdleView
    /\ inputMode' = mode
    /\ UNCHANGED <<file, urlInput>>
    /\ UNCHANGED <<envVars, appState, report, error, submitted, inv, settled, animVars>>

\* renderNavButton onClick
setInputMode(mode) ==
    /\ ~MicrotaskPending
    /\ IdleView
    /\ inputMode' = mode
    /\ file' = <<>>
    /\ urlInput' = ""
    /\ UNCHANGED <<envVars, appState, report, error, submitted, inv, settled, animVars>>

\* analyzeAsset without the API_KEY check
BeginWithoutKeyCheck(i, a) ==
    IF ReadOf(a) # "none" THEN
        [Unused EXCEPT !.pc = "reading", !.sub = i, !.input = a]
    ELSE
        [Unused EXCEPT !.pc = "calling", !.sub = i, !.input = a,
                       !.parts = BuildParts(a), !.calls = 1]

\* analyzeAsset up to its first await
Begin(i, a) ==
    IF apiKey = "" THEN
        [Unused EXCEPT !.pc = "rejecting", !.sub = i, !.input = a,
                       !.result = Thrown(NewError("API_KEY is missing from environment variables"))]
    ELSE IF ReadOf(a) # "none" THEN
        [Unused EXCEPT !.pc = "reading", !.sub = i, !.input = a]
    ELSE
        [Unused EXCEPT !.pc = "calling", !.sub = i, !.input = a,
                       !.parts = BuildParts(a), !.calls = 1]

\* startScan without setAppState(AppState.SCANNING)
startScanStaysIdle ==
    /\ ~MicrotaskPending
    /\ ScanButton
    /\ submitted < MaxSubmissions
    /\ LET asset == IF inputMode = "url"
                    THEN (IF urlInput = "" THEN NoAsset ELSE UrlAsset(urlInput))
                    ELSE (IF file = <<>> THEN NoAsset ELSE FileAsset(file[1]))
       IN IF asset = NoAsset
          THEN UNCHANGED <<appState, report, error, submitted, inv, animVars>>
          ELSE /\ Commit(appState, report, "null")
               /\ submitted' = submitted + 1
               /\ inv' = [inv EXCEPT ![submitted + 1] = Begin(submitted + 1, asset)]
    /\ UNCHANGED <<envVars, inputMode, file, urlInput, settled>>

startScan ==
    /\ ~MicrotaskPending
    /\ ScanButton
    /\ submitted < MaxSubmissions
    /\ LET asset == IF inputMode = "url"
                    THEN (IF urlInput = "" THEN NoAsset ELSE UrlAsset(urlInput))
                    ELSE (IF file = <<>> THEN NoAsset ELSE FileAsset(file[1]))
       IN IF asset = NoAsset
          THEN UNCHANGED <<appState, report, error, submitted, inv, animVars>>
          ELSE /\ Commit(SCANNING, report, "null")
               /\ submitted' = submitted + 1
               /\ inv' = [inv EXCEPT ![submitted + 1] = Begin(submitted + 1, asset)]
    /\ UNCHANGED <<envVars, inputMode, file, urlInput, settled>>

\* resetApp without setReport(null)
resetAppKeepsReport ==
    /\ ~MicrotaskPending
    /\ ResetControl
    /\ Commit(IDLE, report, "null")
    /\ file' = <<>>
    /\ urlInput' = ""
    /\ UNCHANGED <<envVars, inputMode, submitted, inv, settled>>

resetApp ==
    /\ ~MicrotaskPending
    /\ ResetControl
    /\ Commit(IDLE, NullReport, "null")
    /\ file' = <<>>
    /\ urlInput' = ""
    /\ UNCHANGED <<envVars, inputMode, submitted, inv, settled>>

----------------------------------------------------------------------------
(* startScan after the await *)

\* setReport(data)
Deliver(j, i) == Commit(appState, ReportOf(i, j), error)

\* a catch block that only logs
FailSwallowed == Commit(appState, report, error)

\* catch (err): setError(...); setAppState(AppState.ERROR)
Fail == Commit(ERROR, report, FailureMessage)

\* the microtask after an invocation that threw before its first await
Rejected(i) ==
    /\ inv[i].pc = "rejecting"
    /\ Settle(i, [inv[i] EXCEPT !.pc = "thrown"])
    /\ Fail
    /\ UNCHANGED <<envVars, inputMode, file, urlInput, submitted>>

\* the read placed inside the retried try block: its failure is slept on
FileReadRetried(i, ok) ==
    /\ ~MicrotaskPending
    /\ inv[i].pc = "reading"
    /\ IF ok
       THEN inv' = [inv EXCEPT ![i].pc = "calling",
                               ![i].parts = BuildParts(inv[i].input),
                               ![i].calls = 1]
       ELSE inv' = [inv EXCEPT ![i].pc = "sleeping",
                               ![i].attempts = inv[i].attempts + 1,
                               ![i].sleeps = Append(inv[i].sleeps, inv[i].delay)]
    /\ UNCHANGED <<appState, report, error, settled, animVars>>
    /\ UNCHANGED <<envVars, inputMode, file, urlInput, submitted>>

\* the FileReader of invocation i fires onload (ok) or onerror
FileRead(i, ok) ==
    /\ ~MicrotaskPending
    /\ inv[i].pc = "reading"
    /\ IF ok
       THEN /\ inv' = [inv EXCEPT ![i].pc = "calling",
                                  ![i].parts = BuildParts(inv[i].input),
                                  ![i].calls = 1]
            /\ UNCHANGED <<appState, report, error, settled, animVars>>
       ELSE /\ Settle(i, [inv[i] EXCEPT !.pc = "thrown", !.result = Thrown(ReadError)])
            /\ Fail
    /\ UNCHANGED <<envVars, inputMode, file, urlInput, submitted>>

\* generateContent of invocation i settles with outcome o: the rest of the
\* try block, then the catch block, then startScan's continuation
RemoteSettles(i, o) ==
    /\ ~MicrotaskPending
    /\ inv[i].pc = "calling"
    /\ LET r == TryBlock(o)
           n == inv[i].attempts + 1
       IN IF r.ok THEN
              /\ Settle(i, [inv[i] EXCEPT !.pc = "returned", !.result = Returned(r.json),
                                          !.last = o])
              /\ Deliver(r.json, i)
          ELSE IF MayRetry(r.err, n) THEN
              /\ inv' = [inv EXCEPT ![i].pc = "sleeping", ![i].attempts = n,
                                    ![i].sleeps = Append(inv[i].sleeps, inv[i].delay),
                                    ![i].last = o]
              /\ UNCHANGED <<appState, report, error, settled, animVars>>
          ELSE
              /\ Settle(i, [inv[i] EXCEPT !.pc = "thrown", !.attempts = n,
                                          !.result = Thrown(r.err), !.last = o])
              /\ Fail
    /\ UNCHANGED <<envVars, inputMode, file, urlInput, submitted>>

\* sleep(delay) of invocation i is over: delay *= 2; continue
SleepEnds(i) ==
    /\ ~MicrotaskPending
    /\ inv[i].pc = "sleeping"
    /\ inv' = [inv EXCEPT ![i].pc = "calling", ![i].delay = Backoff(inv[i].delay),
                          ![i].calls = inv[i].calls + 1, ![i].last = NoOutcome]
    /\ UNCHANGED <<envVars, appVars, submitted, settled, animVars>>

----------------------------------------------------------------------------
(* ScanVisualization: timers *)

\* the timer of the current step fires: the step is complete, the index
\* moves on and the effect runs for the new index
StepTimer ==
    /\ ~MicrotaskPending
    /\ appState = SCANNING
    /\ currentStepIndex < Len(steps)
    /\ AnimAfter(SCANNING, report, TRUE,
                 [steps EXCEPT ![currentStepIndex + 1] = "complete"],
                 currentStepIndex + 1)
    /\ UNCHANGED <<envVars, appVars, submitted, inv, settled>>

\* onScanComplete, as the closure that captured report value rep
onScanComplete(rep) ==
    IF JTruthy(rep.json) THEN REPORT_READY ELSE appState

\* the oldest completion timer fires
CompletionTimer ==
    /\ ~MicrotaskPending
    /\ completionTimers # <<>>
    /\ LET st == onScanComplete(Head(completionTimers))
       IN /\ appState' = st
          /\ IF st # SCANNING
             THEN steps' = STEPS /\ currentStepIndex' = 0
             ELSE UNCHANGED <<steps, currentStepIndex>>
    /\ completionTimers' = Tail(completionTimers)
    /\ UNCHANGED <<envVars, inputMode, file, urlInput, report, error, submitted, inv,
                   settled>>

----------------------------------------------------------------------------
Next ==
    \/ \E f \in FileSamples : handleFileChange(f)
    \/ \E u \in UrlSamples \cup {""} : setUrlInput(u)
    \/ resetApp
    \/ \E m \in {"file", "url"} : setInputMode(m)
    \/ startScan
    \/ \E i \in 1..MaxSubmissions : Rejected(i)
    \/ \E i \in 1..MaxSubmissions : \E ok \in BOOLEAN : FileRead(i, ok)
    \/ \E i \in 1..MaxSubmissions : \E o \in RemoteOutcomes : RemoteSettles(i, o)
    \/ \E i \in 1..MaxSubmissions : SleepEnds(i)
    \/ StepTimer
    \/ CompletionTimer

Spec == Init /\ [][Next]_vars

\* The browser runs every queued task: a pending promise continuation, a
\* FileReader event, the settling of a remote call and a timer that is due
\* all run eventually.  Nothing makes the user act.
Fairness ==
    /\ WF_vars(\E i \in 1..MaxSubmissions : Rejected(i))
    /\ WF_vars(\E i \in 1..MaxSubmissions : \E ok \in BOOLEAN : FileRead(i, ok))
    /\ WF_vars(\E i \in 1..MaxSubmissions : \E o \in RemoteOutcomes : RemoteSettles(i, o))
    /\ WF_vars(\E i \in 1..MaxSubmissions : SleepEnds(i))
    /\ WF_vars(StepTimer)
    /\ WF_vars(CompletionTimer)

FairSpec == Spec /\ Fairness

----------------------------------------------------------------------------
(* The retry loop's iteration on its own: any outcome of the remote call,  *)
(* at any attempt.                                                         *)

LoopInit ==
    /\ build = "App.tsx"
    /\ apiKey = "key"
    /\ appState = IDLE
    /\ inputMode = "file"
    /\ file = <<>>
    /\ urlInput = ""
    /\ report = NullReport
    /\ error = "null"
    /\ submitted = 0
    /\ inv = [i \in 1..MaxSubmissions |-> Unused]
    /\ settled = Unused
    /\ steps = STEPS
    /\ currentStepIndex = 0
    /\ completionTimers = <<>>
    /\ trial \in Trials
    /\ trialResult = NoTrialResult
    /\ normIn = NoAsset
    /\ normOut = NoNormOut

Iterate ==
    /\ trialResult = NoTrialResult
    /\ trialResult' = Iteration(trial.o, trial.attempts)
    /\ UNCHANGED <<build, apiKey, appVars, submitted, inv, settled, animVars, trial,
                   normIn, normOut>>

LoopSpec == LoopInit /\ [][Iterate]_vars

----------------------------------------------------------------------------
(* The normalizer on its own: any asset, its reads succeeding.             *)

NormInit ==
    /\ build = "App.tsx"
    /\ apiKey = "key"
    /\ appState = IDLE
    /\ inputMode = "file"
    /\ file = <<>>
    /\ urlInput = ""
    /\ report = NullReport
    /\ error = "null"
    /\ submitted = 0
    /\ inv = [i \in 1..MaxSubmissions |-> Unused]
    /\ settled = Unused
    /\ steps = STEPS
    /\ currentStepIndex = 0
    /\ completionTimers = <<>>
    /\ trial = NoTrial
    /\ trialResult = NoTrialResult
    /\ normIn \in NormAssets
    /\ normOut = NoNormOut

Normalize ==
    /\ ~normOut.done
    /\ normOut' = Normalized(normIn)
    /\ UNCHANGED <<build, apiKey, appVars, submitted, inv, settled, animVars, trial,
                   trialResult, normIn>>

NormSpec == NormInit /\ [][Normalize]_vars

----------------------------------------------------------------------------
(* Vocabulary of the properties *)

Subs == 1..MaxSubmissions
Settled(pc) == pc \in {"returned", "thrown"}
\* submission i reaches its terminal outcome in this step
Settles(i) == InFlight(i) /\ Settled(inv'[i].pc)
\* the number of submissions in flight
InFlightCount == Cardinality({i \in Subs : InFlight(i)})

----------------------------------------------------------------------------
(* C1: a submission that is still in flight when the controller is back in *)
(* Idle was abandoned by a reset; when it later succeeds or fails, the     *)
(* controller's state, report and error message stay as they are.          *)
C1_LateOutcomeDiscarded ==
    [][\A i \in Subs :
          (appState = IDLE /\ Settles(i)) => UNCHANGED <<appState, report, error>>]_vars

(* C2: in every reachable state at most one analyzeAsset invocation is in  *)
(* flight.                                                                 *)
C2_AtMostOneInFlight == InFlightCount <= 1

(* C3: whenever the controller is in ReportReady, the report it holds is   *)
(* the one the requester returned for the most recent submission.          *)
C3_ReportOfLatestSubmission ==
    appState = REPORT_READY =>
        /\ submitted >= 1
        /\ inv[submitted].pc = "returned"
        /\ report.sub = submitted

(* C4: with every remote call returning and every timer firing, each entry *)
(* into Scanning is eventually followed by ReportReady or Error (a scan    *)
(* the user abandons by a reset ends in Idle and is not counted).          *)
C4_ScanningEnds ==
    (appState = SCANNING) ~> (appState \in {REPORT_READY, ERROR, IDLE})

(* C5: the controller enters ReportReady only from Scanning, and only when *)
(* the requester has returned the report of the current submission and the *)
(* animation has run all its steps; a report that arrives while Scanning   *)
(* leaves the state Scanning.                                              *)
C5_ReportReadyNeedsBoth ==
    [][/\ (appState # REPORT_READY /\ appState' = REPORT_READY) =>
            /\ appState = SCANNING
            /\ submitted >= 1
            /\ inv[submitted].pc = "returned"
            /\ report.sub = submitted
            /\ currentStepIndex = Len(steps)
       /\ \A i \in Subs :
            (appState = SCANNING /\ Settles(i) /\ inv'[i].pc = "returned") =>
                appState' = SCANNING]_vars

(* C6: a failure of the normalizer or the requester while Scanning moves   *)
(* the controller to Error with a non-empty message, wherever the          *)
(* animation is, and from Error no completion signal leads to ReportReady. *)
C6_FailureIsError ==
    [][/\ \A i \in Subs :
            (appState = SCANNING /\ Settles(i) /\ inv'[i].pc = "thrown") =>
                (appState' = ERROR /\ error' \notin {"null", ""})
       /\ appState = ERROR => appState' # REPORT_READY]_vars

(* C7: in every reachable state whose state is Error a control bound to   *)
(* resetApp is on screen.                                                  *)
C7_ErrorOffersReset == appState = ERROR => ResetControl

----------------------------------------------------------------------------
(* The retry loop *)

\* the delays slept after a first, second, ... k-th failure
Delays(k) == [n \in 1..k |-> 4000 * 2^(n - 1)]

(* C8: an invocation that returns after k rate-limited calls (k in 0..4)   *)
(* has made exactly k+1 calls, has slept 4000, 8000, 16000, 32000 ms after *)
(* its first, second, third and fourth failure, and returns the value      *)
(* parsed from the response of its last call.                              *)
C8_RetryThenSuccess ==
    settled.pc = "returned" =>
        /\ settled.attempts \in 0..4
        /\ settled.calls = settled.attempts + 1
        /\ settled.sleeps = Delays(settled.attempts)
        /\ settled.last.kind = "response"
        /\ settled.result.kind = "value"
        /\ settled.last.text = ReportText =>
               settled.result.json = JObject(RequiredFields \cup ListFields)

C8_Witness ==
    /\ settled.pc = "returned"
    /\ settled.attempts = 4
    /\ settled.last.text = ReportText
    /\ settled.sleeps = <<4000, 8000, 16000, 32000>>

FatalFailure(i) ==
    /\ inv[i].pc = "calling"
    /\ inv'[i].pc # "calling"
    /\ LET o == IF Settled(inv'[i].pc) THEN settled'.last ELSE inv'[i].last
       IN ~TryBlock(o).ok /\ ~isRateLimit(TryBlock(o).err)

(* C10: when an attempt, the first or a later one, fails with an error     *)
(* that is not classified as rate-limited, the invocation fails at that    *)
(* attempt with that same error: it does not sleep or call again, and no   *)
(* report reaches the controller.                                          *)
C10_FatalFailsAtOnce ==
    [][\A i \in Subs : FatalFailure(i) =>
          /\ inv'[i].pc = "thrown"
          /\ settled'.sub = i
          /\ settled'.result = Thrown(TryBlock(settled'.last).err)
          /\ settled'.calls = inv[i].calls
          /\ settled'.sleeps = inv[i].sleeps
          /\ report' = report]_vars

C10_Witness ==
    /\ settled.pc = "thrown"
    /\ settled.last.err = ServerError
    /\ settled.last.kind = "throw"
    /\ settled.attempts = 3
    /\ settled.result = Thrown(ServerError)

----------------------------------------------------------------------------
(* Parsing and classification *)

\* the response of the trial has no text or a text that is not JSON
BadResponse ==
    /\ trial.o.kind = "response"
    /\ (trial.o.text = "" \/ ~JSONParse(trial.o.text).ok)

(* C11: an iteration whose remote call returned an empty text or a text    *)
(* that does not parse as JSON throws: its failure is not classified as    *)
(* rate-limited and the loop does not go round again, whatever the text.   *)
C11_BadResponseIsFatal ==
    (trialResult # NoTrialResult /\ BadResponse) =>
        (trialResult.kind = "throw" /\ ~trialResult.rateLimit)

\* the classification as the specification words it
RateLimitCodes == {"num:429", "str:RESOURCE_EXHAUSTED"}
MessageSaysRateLimit(m) ==
    /\ IsString(m)
    /\ \/ Includes(Raw(m), "429")
       \/ Includes(Raw(m), "quota")
       \/ Includes(Raw(m), "RESOURCE_EXHAUSTED")
SaidRateLimited(e) ==
    \/ {e.status, e.code, e.ecode, e.estatus} \cap RateLimitCodes # {}
    \/ MessageSaysRateLimit(e.message)
    \/ MessageSaysRateLimit(e.emessage)

(* C12: an error thrown by the remote call is classified as rate-limited   *)
(* exactly when one of error.status, error.code, error.error.code,         *)
(* error.error.status is 429 or 'RESOURCE_EXHAUSTED' or its message        *)
(* contains '429', 'quota' or 'RESOURCE_EXHAUSTED', whichever fields the   *)
(* error has.                                                              *)
C12_RateLimitedExactlyWhen ==
    (trialResult # NoTrialResult /\ trial.o.kind = "throw") =>
        (trialResult.rateLimit <=> SaidRateLimited(trial.o.err))

----------------------------------------------------------------------------
(* The controller's state machine *)

\* the steps of the state the specification allows
AllowedStep(s, t) ==
    \/ s = IDLE /\ t = SCANNING
    \/ s = SCANNING /\ t \in {REPORT_READY, ERROR}
    \/ t = IDLE

(* C13: the state is always one of Idle, Scanning, ReportReady, Error; it  *)
(* starts in Idle; it changes only Idle->Scanning (with a submission),     *)
(* Scanning->ReportReady, Scanning->Error, or to Idle (by a reset).        *)
C13_OnlyAllowedSteps ==
    /\ appState = IDLE
    /\ [](appState \in AppState)
    /\ [][/\ appState' # appState => AllowedStep(appState, appState')
          /\ (appState = IDLE /\ appState' = SCANNING) => submitted' = submitted + 1
          /\ (appState # IDLE /\ appState' = IDLE) => resetApp]_vars

(* C14: a reset, in whichever state it is invoked, leaves the controller   *)
(* in Idle with no file selected, an empty URL text, no report and no      *)
(* error message.                                                          *)
C14_ResetClears ==
    [][(resetApp \/ (appState # IDLE /\ appState' = IDLE)) =>
          /\ appState' = IDLE
          /\ file' = <<>>
          /\ urlInput' = ""
          /\ report' = NullReport
          /\ error' = "null"]_vars

\* the controller after a reset that was invoked in Scanning: back in Idle
\* and cleared while the abandoned invocation is still in flight
C14_Witness ==
    /\ appState = IDLE
    /\ \E i \in Subs : InFlight(i)
    /\ file = <<>> /\ urlInput = "" /\ report = NullReport /\ error = "null"

(* C15: a reset invoked in Idle changes nothing: the state stays Idle and  *)
(* the input mode, the selected file, the URL text, the report and the     *)
(* error message are as before.                                            *)
C15_ResetInIdleIsNoOp ==
    [][(appState = IDLE /\ resetApp) => UNCHANGED appVars]_vars

(* C16: whenever the state is ReportReady a non-null report is held, and   *)
(* the report view is on screen in ReportReady only.                       *)
C16_ReportReadyHoldsReport ==
    /\ appState = REPORT_READY => report.json # JNull
    /\ ReportShown => appState = REPORT_READY

----------------------------------------------------------------------------
(* Selection and submission *)

\* the files analyzeAsset has been called with
SubmittedFiles ==
    {inv[i].input.file : i \in {j \in Subs : inv[j].input.kind = "file"}}
    \cup (IF settled.input.kind = "file" THEN {settled.input.file} ELSE {})

(* C17: the selected file is never larger than 50*1024*1024 bytes, and no  *)
(* invocation of the requester was ever given a larger file; selecting a   *)
(* file of at most that size, exactly 50 MiB included, makes it the        *)
(* selected file, and selecting a larger one leaves the selection as it    *)
(* is.                                                                     *)
C17_FileSizeLimit ==
    /\ [](/\ file # <<>> => file[1].size <= 50 * 1024 * 1024
          /\ \A f \in SubmittedFiles : f.size <= 50 * 1024 * 1024)
    /\ [][\A f \in FileSamples : handleFileChange(f) =>
              file' = IF f.size <= 50 * 1024 * 1024 THEN <<f>> ELSE file]_vars

\* a file of exactly 50 MiB was selected and submitted, and its remote call
\* is pending
C17_Witness ==
    \E i \in Subs :
        /\ inv[i].pc = "calling"
        /\ inv[i].input.kind = "file"
        /\ inv[i].input.file.size = 50 * 1024 * 1024

\* the asset startScan would read is empty: no file in file mode, no text
\* in URL mode
EmptyAsset == IF inputMode = "url" THEN urlInput = "" ELSE file = <<>>

(* C18: while the controller is in Idle with an empty asset no step moves  *)
(* it to Scanning or starts an invocation of the requester, and a submit   *)
(* there leaves report and error message alone; a submit with a non-empty  *)
(* asset in Idle starts one invocation and moves the state to Scanning.    *)
C18_SubmitNeedsAsset ==
    [][/\ (appState = IDLE /\ EmptyAsset) =>
            /\ appState' # SCANNING
            /\ submitted' = submitted
            /\ startScan => UNCHANGED <<appState, report, error>>
       /\ submitted' # submitted =>
            /\ appState = IDLE /\ ~EmptyAsset
            /\ submitted' = submitted + 1
            /\ appState' = SCANNING
       /\ (startScan /\ ~EmptyAsset) => (appState' = SCANNING /\ submitted' = submitted + 1)]_vars

\* a URL was typed and submitted: the controller is in Scanning with the
\* invocation for that URL in flight
C18_Witness ==
    /\ appState = SCANNING
    /\ submitted >= 1
    /\ InFlight(submitted)
    /\ inv[submitted].input.kind = "url"
    /\ inv[submitted].input.url # ""

----------------------------------------------------------------------------
(* Reports and the schema *)

\* a parsed value that has the fields the schema requires
HasRequiredFields(j) == j.kind = "object" /\ RequiredFields \subseteq j.fields

\* the call of invocation i settles in this step with a response that is
\* valid JSON and does not match the schema
MismatchedResponse(i) ==
    /\ inv[i].pc = "calling"
    /\ inv'[i].pc # "calling"
    /\ LET o == IF Settled(inv'[i].pc) THEN settled'.last ELSE inv'[i].last
       IN /\ o.kind = "response"
          /\ o.text # ""
          /\ JSONParse(o.text).ok
          /\ ~HasRequiredFields(JSONParse(o.text).json)

(* C19: every report the controller holds has case_id, verdict,            *)
(* confidence_score, summary and risk_level; a response that is valid JSON *)
(* and does not match the schema makes the invocation fail at once, and    *)
(* the controller, when it is Scanning, moves to Error.                    *)
C19_SchemaMismatchIsFatal ==
    /\ [](report # NullReport => HasRequiredFields(report.json))
    /\ [][\A i \in Subs : MismatchedResponse(i) =>
              /\ inv'[i].pc = "thrown"
              /\ appState = SCANNING => appState' = ERROR]_vars

(* C20: every report an iteration of the requester returns has the list    *)
(* fields key_evidence, suspicious_urls, probable_original_sources,        *)
(* data_gaps and recommended_actions, also when the response omitted them. *)
C20_ListFieldsPresent ==
    (trialResult.kind = "return" /\ trialResult.json.kind = "object") =>
        ListFields \subseteq trialResult.json.fields

----------------------------------------------------------------------------
(* Failures before the retry loop *)

(* C21: when the API credential is absent no invocation reads a file or    *)
(* makes a remote call: each fails at once, and the controller moves from  *)
(* Scanning to Error.                                                      *)
C21_NoKeyFailsFirst ==
    /\ [](apiKey = "" =>
            /\ \A i \in Subs : inv[i].pc \in {"unused", "rejecting", "thrown"}
                                /\ inv[i].calls = 0
            /\ settled.calls = 0)
    /\ [][\A i \in Subs : (apiKey = "" /\ inv[i].pc # inv'[i].pc) =>
              \/ inv[i].pc = "unused" /\ inv'[i].pc = "rejecting" /\ appState' = SCANNING
              \/ inv[i].pc = "rejecting" /\ inv'[i].pc = "thrown"
                    /\ appState = SCANNING /\ appState' = ERROR]_vars

\* without a credential, a submitted file has failed and the controller is
\* in Error
C21_Witness ==
    /\ apiKey = ""
    /\ settled.pc = "thrown"
    /\ settled.input.kind = "file"
    /\ appState = ERROR

----------------------------------------------------------------------------
(* Outcomes and calls of a submission *)

(* C23: an invocation settles once, as returned or as thrown, and stays    *)
(* so; in the step in which it returns the controller stores the returned  *)
(* value as its report and gets no error, and in the step in which it      *)
(* throws, whether in the normalizer or in the requester, the controller   *)
(* gets the error message and the state Error and no report.               *)
C23_OneOutcomePerSubmission ==
    [][\A i \in Subs :
        /\ Settled(inv[i].pc) => inv'[i].pc = inv[i].pc
        /\ (Settles(i) /\ inv'[i].pc = "returned") =>
              /\ settled'.sub = i /\ settled'.result.kind = "value"
              /\ report' = ReportOf(i, settled'.result.json)
              /\ error' = error /\ appState' = appState
        /\ (Settles(i) /\ inv'[i].pc = "thrown") =>
              /\ settled'.sub = i /\ settled'.result.kind = "error"
              /\ error' = FailureMessage /\ appState' = ERROR
              /\ report' = report]_vars

\* one submission has failed in the requester and another has returned its
\* report
C23_Witness ==
    /\ inv[1].pc = "thrown"
    /\ inv[2].pc = "returned"
    /\ settled.sub = 2
    /\ report = ReportOf(2, settled.result.json)
    /\ report # NullReport

(* C24: the calls of one invocation are made one after the other: a call   *)
(* is made only when none is pending, the first when the normalizer is     *)
(* done and each later one after the failure of the one before and the     *)
(* sleep that follows it; one call per attempt, five at most; and every    *)
(* invocation that returns has made a call of its own, also for an asset   *)
(* submitted before.                                                       *)
C24_CallsAreSequential ==
    [][\A i \in Subs :
        /\ inv'[i].calls <= 5
        /\ inv'[i].calls # inv[i].calls =>
              \/ Settled(inv'[i].pc) /\ settled'.calls = inv[i].calls
              \/ /\ inv'[i].calls = inv[i].calls + 1
                 /\ inv'[i].pc = "calling"
                 /\ \/ inv[i].pc \in {"unused", "reading"} /\ inv[i].calls = 0
                    \/ /\ inv[i].pc = "sleeping"
                       /\ inv[i].last.kind # "none"
                       /\ inv[i].attempts = inv[i].calls
                       /\ Len(inv[i].sleeps) = inv[i].calls
        /\ (Settles(i) /\ inv'[i].pc = "returned") =>
              (settled'.calls = settled'.attempts + 1 /\ inv[i].pc = "calling")]_vars

\* the same URL submitted twice (part_000, after a reset): each invocation
\* makes its own calls, the first is at its second call while the second
\* waits for its first
C24_Witness ==
    /\ inv[1].input = inv[2].input
    /\ inv[1].input.kind = "url"
    /\ inv[1].pc = "calling" /\ inv[1].calls = 2
    /\ inv[2].pc = "calling" /\ inv[2].calls = 1

----------------------------------------------------------------------------
(* The normalizer's payload *)

\* the classes of file as the specification words them
SupportedBinaryType(t) ==
    t = "application/pdf" \/ StartsWith(t, "image/") \/ StartsWith(t, "video/")
PlainTextLike(f) ==
    \/ StartsWith(f.type, "text/")
    \/ \E ext \in {"txt", "md", "csv", "json"} : EndsWith(f.name, "." \o ext)

\* the bytes a base64 text stands for
B64Index(c) == CHOOSE n \in 0..63 : B64Char(n) = c
RECURSIVE B64Decode(_)
B64Decode(s) ==
    IF Len(s) < 4 THEN <<>>
    ELSE LET a == B64Index(SubSeq(s, 1, 1))
             b == B64Index(SubSeq(s, 2, 2))
         IN IF SubSeq(s, 3, 3) = "=" THEN << a * 4 + b \div 16 >>
            ELSE LET c == B64Index(SubSeq(s, 3, 3))
                 IN IF SubSeq(s, 4, 4) = "="
                    THEN << a * 4 + b \div 16, (b % 16) * 16 + c \div 4 >>
                    ELSE << a * 4 + b \div 16, (b % 16) * 16 + c \div 4,
                            (c % 4) * 64 + B64Index(SubSeq(s, 4, 4)) >>
                         \o B64Decode(SubSeq(s, 5, Len(s)))

(* C25: for a file whose MIME type is application/pdf or starts with       *)
(* image/ or video/, whatever its name, the normalizer builds exactly two  *)
(* parts: a binary part with the file's MIME type and the base64 text of   *)
(* its bytes, then a text part.                                            *)
C25_BinaryFileTwoParts ==
    (normOut.done /\ normIn.kind = "file" /\ SupportedBinaryType(normIn.file.type)) =>
        /\ Len(normOut.parts) = 2
        /\ normOut.parts[1].kind = "inlineData"
        /\ normOut.parts[1].mimeType = normIn.file.type
        /\ B64Decode(normOut.parts[1].data) = normIn.file.bytes
        /\ normOut.parts[2].kind = "text"

\* the payload is the single text part built from the file's metadata, and
\* nothing was read
MetadataOnly ==
    /\ Len(normOut.parts) = 1
    /\ normOut.parts[1].kind = "text"
    /\ Includes(normOut.parts[1].text, "File Name: " \o normIn.file.name \o "\n")
    /\ Includes(normOut.parts[1].text, "File Size: " \o Digits(normIn.file.size) \o " bytes")
    /\ Includes(normOut.parts[1].text, "File Type: " \o normIn.file.type \o "\n")
    /\ normOut.read = "none"

(* C26 as stated: for a .docx file, or any file whose type fails the       *)
(* supported-binary test, the normalizer builds exactly one text part with *)
(* the file's name, byte size and MIME type and reads nothing.             *)
C26_UnsupportedIsMetadataOnly ==
    (/\ normOut.done /\ normIn.kind = "file"
     /\ (EndsWith(normIn.file.name, ".docx") \/ ~SupportedBinaryType(normIn.file.type))) =>
        MetadataOnly

(* C26 amended: for a file that is not plain-text-like (its type is not    *)
(* text/*, its extension not txt, md, csv or json) and whose type fails    *)
(* the supported-binary test, the normalizer builds exactly one text part  *)
(* with the file's name, byte size and MIME type and reads nothing.        *)
C26_OtherFileIsMetadataOnly ==
    (/\ normOut.done /\ normIn.kind = "file"
     /\ ~PlainTextLike(normIn.file)
     /\ ~SupportedBinaryType(normIn.file.type)) =>
        MetadataOnly

\* a .docx file with its own MIME type has been normalized
C26_Witness ==
    /\ normOut.done
    /\ normIn.kind = "file"
    /\ normIn.file.name = "paper.docx"
    /\ normIn.file.type = "application/vnd.openxmlformats-officedocument.wordprocessingml.document"
    /\ normIn.file.size = 3
    /\ Len(normOut.parts) = 1
    /\ normOut.read = "none"

(* C27: for a file whose MIME type starts with text/ or whose extension is *)
(* txt, md, csv or json the normalizer builds exactly one part, a text     *)
(* part whose text contains the whole decoded content of the file, and no  *)
(* binary part.                                                            *)
C27_TextFileOneTextPart ==
    (normOut.done /\ normIn.kind = "file" /\ PlainTextLike(normIn.file)) =>
        /\ normOut.read = "text"
        /\ Len(normOut.parts) = 1
        /\ normOut.parts[1].kind = "text"
        /\ EndsWith(normOut.parts[1].text, "\n\n" \o DecodeText(normIn.file.bytes))
        /\ \A k \in 1..Len(normOut.parts) : normOut.parts[k].kind # "inlineData"

\* a markdown file without a MIME type, with content, has been normalized
C27_Witness ==
    /\ normOut.done
    /\ normIn.kind = "file"
    /\ normIn.file.name = "readme.md"
    /\ normIn.file.type = ""
    /\ normIn.file.bytes = <<72, 105>>
    /\ normOut.parts = << TextPart("Analyze this text content for plagiarism and piracy risks:\n\nHi") >>

----------------------------------------------------------------------------
(* The controller's fields *)

(* C28: when the controller enters ReportReady or Error the submitted      *)
(* asset is gone: no file is selected and the URL text is empty.           *)
C28_AssetDiscardedAtEnd ==
    [][(appState' # appState /\ appState' \in {REPORT_READY, ERROR}) =>
          (file' = <<>> /\ urlInput' = "")]_vars

(* C29: a report, once stored, stays the same until the next reset: the    *)
(* report changes from a non-null value only by being cleared in a step    *)
(* that resets the controller to Idle.                                     *)
C29_ReportImmutable ==
    [][(report.json # JNull /\ report' # report) =>
          (report' = NullReport /\ appState' = IDLE /\ file' = <<>> /\ urlInput' = ""
           /\ error' = "null")]_vars

(* C30: the error message is non-null exactly when the state is Error.     *)
C30_ErrorMessageIffError == (error # "null") <=> (appState = ERROR)

----------------------------------------------------------------------------
(* Input mode *)

\* the asset of the current input mode
CurrentAsset ==
    IF inputMode = "url" THEN (IF urlInput = "" THEN NoAsset ELSE UrlAsset(urlInput))
    ELSE (IF file = <<>> THEN NoAsset ELSE FileAsset(file[1]))

(* C31: in file mode the URL text is empty and in URL mode no file is      *)
(* selected, so at most one of the two is non-empty and it belongs to the  *)
(* current mode; a step that changes the mode leaves both empty; and the   *)
(* asset an invocation is started with is the asset of the current mode.   *)
C31_OneAssetOfCurrentMode ==
    /\ [](/\ inputMode \in {"file", "url"}
          /\ inputMode = "file" => urlInput = ""
          /\ inputMode = "url" => file = <<>>)
    /\ [][/\ inputMode' # inputMode => (file' = <<>> /\ urlInput' = "")
          /\ submitted' # submitted =>
                /\ inv'[submitted'].input = CurrentAsset
                /\ inv'[submitted'].input.kind = inputMode]_vars

\* a file was submitted in file mode and, after a reset and a switch of
\* mode, a URL in URL mode: both invocations are in flight
C31_Witness ==
    /\ inputMode = "url" /\ urlInput # "" /\ file = <<>>
    /\ inv[1].input.kind = "file"
    /\ inv[2].input = UrlAsset(urlInput)

----------------------------------------------------------------------------
(* The scan animation *)

\* steps before the index are complete, the step at the index is active,
\* the later ones are pending
StepsInOrder ==
    /\ Len(steps) = 6
    /\ currentStepIndex \in 0..6
    /\ \A k \in 1..6 :
          steps[k] = IF k <= currentStepIndex THEN "complete"
                     ELSE IF k = currentStepIndex + 1 THEN "active"
                     ELSE "pending"

(* C32: while the animation is mounted its steps complete in order: the    *)
(* steps before the index are complete, at most one step (the one at the   *)
(* index) is active and the later ones are pending; the index rises by one *)
(* at a time and never falls, also when the effect runs again because      *)
(* onComplete changed; and a completion signal is sent only when the index *)
(* is 6 and all six steps are complete.                                    *)
C32_StepsInOrder ==
    /\ [](appState = SCANNING => StepsInOrder)
    /\ [][/\ (appState = SCANNING /\ appState' = SCANNING) =>
                currentStepIndex' \in {currentStepIndex, currentStepIndex + 1}
          /\ Len(completionTimers') > Len(completionTimers) =>
                /\ appState' = SCANNING
                /\ currentStepIndex' = 6
                /\ \A k \in 1..6 : steps'[k] = "complete"]_vars

\* all six steps are complete and the signal has been sent twice: once when
\* the last step completed, once more when the effect ran again
C32_Witness ==
    /\ appState = SCANNING
    /\ currentStepIndex = 6
    /\ \A k \in 1..6 : steps[k] = "complete"
    /\ Len(completionTimers) >= 2

====
